---- MODULE Spec2Model ----
(***************************************************************************)
(* Model of the student CRUD program: the Student record model with its    *)
(* field validators (scripts/student_model.py) and the StudentController   *)
(* that owns the in-memory list students_data                              *)
(* (scripts/student_controller.py).                                        *)
(*                                                                         *)
(* Python values are tagged records [t, s, n]:                             *)
(*   t = "str"   a str, s its characters (one-character strings)           *)
(*   t = "int"   an int, n its value                                       *)
(*   t = "float" a finite float, n its value in hundredths                 *)
(*   t = "nan"   the float nan                                             *)
(*   t = "none"  None                                                      *)
(*   t = "ts"    a str in the form "%Y-%m-%d %H:%M:%S", n the second it    *)
(*               names (such strings order as their seconds do)            *)
(***************************************************************************)
EXTENDS Integers, Sequences, FiniteSets, TLC

VARIABLES students_data, now, last

vars == <<students_data, now, last>>

(***************************************************************************)
(* Bounds of the model.                                                    *)
(***************************************************************************)
MaxTime == 1
\* the longest name and the longest email the validators are applied to
MaxNameLen == 3
MaxEmailLen == 6

(***************************************************************************)
(* Python values.                                                          *)
(***************************************************************************)
Str(chars) == [t |-> "str", s |-> chars, n |-> 0]
IntV(k) == [t |-> "int", s |-> <<>>, n |-> k]
FloatV(h) == [t |-> "float", s |-> <<>>, n |-> h]
NaN == [t |-> "nan", s |-> <<>>, n |-> 0]
NoneV == [t |-> "none", s |-> <<>>, n |-> 0]
TS(k) == [t |-> "ts", s |-> <<>>, n |-> k]

IsStr(v) == v.t \in {"str", "ts"}
IsNum(v) == v.t \in {"int", "float", "nan"}
\* the value of a number in hundredths
NumVal(v) == IF v.t = "int" THEN v.n * 100 ELSE v.n
\* Python's truth test: `not v` is Falsy(v)
Falsy(v) ==
    \/ v.t = "none"
    \/ v.t = "str" /\ v.s = <<>>
    \/ v.t \in {"int", "float"} /\ v.n = 0
\* type(v).__name__
TypeName(v) ==
    IF v.t = "int" THEN "int" ELSE IF v.t \in {"float", "nan"} THEN "float"
    ELSE IF v.t = "none" THEN "NoneType" ELSE "str"
\* Python's == and <: every comparison with nan is False
PyEq(a, b) ==
    IF a.t = "nan" \/ b.t = "nan" THEN FALSE
    ELSE IF IsNum(a) /\ IsNum(b) THEN NumVal(a) = NumVal(b) ELSE a = b
PyLt(a, b) == a.t # "nan" /\ b.t # "nan" /\ NumVal(a) < NumVal(b)

(***************************************************************************)
(* Characters.                                                             *)
(***************************************************************************)
UpperChars == <<"A", "B", "C", "D", "E", "F", "G", "H", "I", "J", "K", "L", "M",
                "N", "O", "P", "Q", "R", "S", "T", "U", "V", "W", "X", "Y", "Z">>
LowerChars == <<"a", "b", "c", "d", "e", "f", "g", "h", "i", "j", "k", "l", "m",
                "n", "o", "p", "q", "r", "s", "t", "u", "v", "w", "x", "y", "z">>
DigitChars == {"0", "1", "2", "3", "4", "5", "6", "7", "8", "9"}
Range(f) == {f[i] : i \in DOMAIN f}
AsciiLetters == Range(UpperChars) \cup Range(LowerChars)
\* letters outside ASCII that the inputs use (str.isalnum and \w accept them)
OtherLetters == {"é"}
\* what str.strip() removes and the regex class \s matches
Whitespace == {" ", "\t", "\n"}

UpperSet == Range(UpperChars)
LowerOfUpper == [c \in UpperSet |-> LowerChars[CHOOSE i \in DOMAIN UpperChars : UpperChars[i] = c]]
\* str.lower() on one character
LowerChar(c) == IF c \in UpperSet THEN LowerOfUpper[c] ELSE c
\* str.lower()
Lower(s) == [i \in DOMAIN s |-> LowerChar(s[i])]

\* str.strip()
Strip(s) ==
    LET keep == {i \in DOMAIN s : s[i] \notin Whitespace}
    IN IF keep = {} THEN <<>>
       ELSE LET lo == CHOOSE i \in keep : \A j \in keep : i <= j
                hi == CHOOSE i \in keep : \A j \in keep : j <= i
            IN SubSeq(s, lo, hi)

\* str.isalnum(): non-empty and every character a letter or a digit
AlnumChars == AsciiLetters \cup OtherLetters \cup DigitChars
IsAlnum(s) ==
    /\ s # <<>>
    /\ \A i \in DOMAIN s : s[i] \in AlnumChars

\* mutant of Contains: a must start b
Contains_prefix(b, a) ==
    Len(a) <= Len(b) /\ SubSeq(b, 1, Len(a)) = a

\* the operator `a in b` on two str
Contains(b, a) ==
    \E k \in 0..(Len(b) - Len(a)) : SubSeq(b, k + 1, k + Len(a)) = a

AllIn(s, lo, hi, set) == \A i \in lo..hi : s[i] \in set

\* the characters of a str as one string, as an f-string renders them
RECURSIVE Text(_)
Text(s) == IF s = <<>> THEN "" ELSE s[1] \o Text(Tail(s))

(***************************************************************************)
(* Field validators.  A validator returns [raised, ok, msg]: raised is     *)
(* TRUE when the Python code raises instead of returning a pair.           *)
(***************************************************************************)
Ok == [raised |-> FALSE, ok |-> TRUE, msg |-> ""]
Bad(m) == [raised |-> FALSE, ok |-> FALSE, msg |-> m]
Raise(m) == [raised |-> TRUE, ok |-> FALSE, msg |-> m]

validate_student_id(v) ==
    IF Falsy(v) THEN Bad("Student ID cannot be empty")
    ELSE IF ~IsStr(v) THEN Raise("object of type '" \o TypeName(v) \o "' has no len()")
    ELSE IF Len(v.s) < 3 THEN Bad("Student ID must be at least 3 characters long")
    ELSE IF ~IsAlnum(v.s) THEN Bad("Student ID must contain only letters and numbers")
    ELSE Ok

NameChars == AsciiLetters \cup Whitespace
\* re.match(r"^[a-zA-Z\s]+$", s): `$` also matches before a final newline
NameRegex(s) ==
    LET end == IF s # <<>> /\ s[Len(s)] = "\n" THEN {Len(s), Len(s) - 1} ELSE {Len(s)}
    IN \E e \in end : e >= 1 /\ AllIn(s, 1, e, NameChars)

validate_name(v) ==
    IF Falsy(v) THEN Bad("Name cannot be empty")
    ELSE IF ~IsStr(v) THEN Raise("'" \o TypeName(v) \o "' object has no attribute 'strip'")
    ELSE LET stripped == Strip(v.s)
         IN IF stripped = <<>> THEN Bad("Name cannot be empty")
            ELSE IF Len(stripped) < 2 THEN Bad("Name must be at least 2 characters long")
            ELSE IF ~NameRegex(stripped) THEN Bad("Name must contain only letters and spaces")
            ELSE Ok

\* mutant of EmailDomain: the domain takes the characters of the local part
EmailDomain_as_local == AsciiLetters \cup DigitChars \cup {".", "_", "%", "+", "-"}

EmailLocal == AsciiLetters \cup DigitChars \cup {".", "_", "%", "+", "-"}
EmailDomain == AsciiLetters \cup DigitChars \cup {".", "-"}
\* re.match(r'^[a-zA-Z0-9._%+-]+@[a-zA-Z0-9.-]+\.[a-zA-Z]{2,}$', s)
EmailRegex(s) ==
    LET end == IF s # <<>> /\ s[Len(s)] = "\n" THEN {Len(s), Len(s) - 1} ELSE {Len(s)}
    IN \E e \in end : \E at \in 2..e : \E dot \in (at + 2)..(e - 2) :
          /\ s[at] = "@"
          /\ s[dot] = "."
          /\ AllIn(s, 1, at - 1, EmailLocal)
          /\ AllIn(s, at + 1, dot - 1, EmailDomain)
          /\ AllIn(s, dot + 1, e, AsciiLetters)

validate_email(v) ==
    IF Falsy(v) THEN Bad("Email cannot be empty")
    ELSE IF ~IsStr(v) THEN Raise("expected string or bytes-like object, got '" \o TypeName(v) \o "'")
    ELSE IF ~EmailRegex(v.s) THEN Bad("Invalid email format")
    ELSE Ok

validate_age(v) ==
    IF v.t # "int" THEN Bad("Age must be a number")
    ELSE IF v.n < 16 \/ v.n > 100 THEN Bad("Age must be between 16 and 100")
    ELSE Ok

validate_major(v) ==
    IF Falsy(v) THEN Bad("Major cannot be empty")
    ELSE IF ~IsStr(v) THEN Raise("'" \o TypeName(v) \o "' object has no attribute 'strip'")
    ELSE IF Strip(v.s) = <<>> THEN Bad("Major cannot be empty")
    ELSE IF Len(Strip(v.s)) < 2 THEN Bad("Major must be at least 2 characters long")
    ELSE Ok

validate_gpa(v) ==
    IF ~IsNum(v) THEN Bad("GPA must be a number")
    ELSE IF PyLt(v, FloatV(0)) \/ PyLt(FloatV(400), v)
    THEN Bad("GPA must be between 0.0 and 4.0")
    ELSE Ok

(***************************************************************************)
(* The Student object and its dictionary form.  Both are records over     *)
(* Keys; an input dictionary is a function whose domain is any set of     *)
(* keys.                                                                   *)
(***************************************************************************)
Keys == {"student_id", "name", "email", "age", "major", "gpa", "created_at", "updated_at"}

\* dict.get(k, default)
Get(d, k, default) == IF k \in DOMAIN d THEN d[k] ELSE default

\* Student(...) at clock time t: both timestamps are the construction time
StudentInit(student_id, name, email, age, major, gpa, t) ==
    [student_id |-> student_id, name |-> name, email |-> email, age |-> age,
     major |-> major, gpa |-> gpa, created_at |-> TS(t), updated_at |-> TS(t)]

SeqOfErr(r) == IF r.ok THEN <<>> ELSE <<r.msg>>

\* mutant of IdErrors: the duplicate check is left out
IdErrors_no_duplicate_check(student, existing_ids) ==
    LET r == validate_student_id(student.student_id)
    IN IF ~r.ok THEN <<r.msg>> ELSE <<>>

\* the id step of validate_all_fields: the format error, else the duplicate error
IdErrors(student, existing_ids) ==
    LET r == validate_student_id(student.student_id)
    IN IF ~r.ok THEN <<r.msg>>
       ELSE IF \E i \in DOMAIN existing_ids : PyEq(student.student_id, existing_ids[i])
            THEN <<"Student ID already exists">>
            ELSE <<>>

\* Student.validate_all_fields: [raised, ok, errors]
validate_all_fields(student, existing_ids) ==
    LET rs == <<validate_student_id(student.student_id), validate_name(student.name),
                validate_email(student.email), validate_age(student.age),
                validate_major(student.major), validate_gpa(student.gpa)>>
    IN IF \E i \in DOMAIN rs : rs[i].raised
       THEN LET first == CHOOSE i \in DOMAIN rs :
                            rs[i].raised /\ \A j \in 1..(i - 1) : ~rs[j].raised
            IN [raised |-> TRUE, ok |-> FALSE, errors |-> <<rs[first].msg>>]
       ELSE LET errors == IdErrors(student, existing_ids) \o SeqOfErr(rs[2]) \o SeqOfErr(rs[3])
                          \o SeqOfErr(rs[4]) \o SeqOfErr(rs[5]) \o SeqOfErr(rs[6])
            IN [raised |-> FALSE, ok |-> Len(errors) = 0, errors |-> errors]

\* Student.to_dict
to_dict(student) ==
    [student_id |-> student.student_id, name |-> student.name, email |-> student.email,
     age |-> student.age, major |-> student.major, gpa |-> student.gpa,
     created_at |-> student.created_at, updated_at |-> student.updated_at]

\* Student.from_dict at clock time t: timestamps of the dictionary are kept
from_dict(d, t) ==
    LET student == StudentInit(Get(d, "student_id", Str(<<>>)), Get(d, "name", Str(<<>>)),
                               Get(d, "email", Str(<<>>)), Get(d, "age", IntV(0)),
                               Get(d, "major", Str(<<>>)), Get(d, "gpa", FloatV(0)), t)
    IN [student EXCEPT !.created_at = Get(d, "created_at", @),
                       !.updated_at = Get(d, "updated_at", @)]

\* mutant of update_timestamp: updated_at is left as it was
update_timestamp_keeps(student, t) == student

\* Student.update_timestamp at clock time t
update_timestamp(student, t) == [student EXCEPT !.updated_at = TS(t)]

(***************************************************************************)
(* The controller.  Each operation is a function of the stored list, its   *)
(* arguments and the clock, and yields the new list and the returned tuple *)
(* [ok, kind, errors, ret]: kind names the return statement taken, ret the *)
(* payload (Student objects, exported dictionaries, or the statistics).    *)
(***************************************************************************)
Res(ok, kind, errors, ret) == [ok |-> ok, kind |-> kind, errors |-> errors, ret |-> ret]
Out(data, res) == [data |-> data, res |-> res]

\* [s['student_id'] for s in self.students_data]
IdsOf(data) == [i \in DOMAIN data |-> data[i].student_id]

\* the index of the first record whose id equals student_id, 0 when there is none
FindIndex(data, student_id) ==
    LET hits == {i \in DOMAIN data : PyEq(data[i].student_id, student_id)}
    IN IF hits = {} THEN 0 ELSE CHOOSE i \in hits : \A j \in hits : i <= j

\* the sequence s without its element at index i
RemoveAt(s, i) == SubSeq(s, 1, i - 1) \o SubSeq(s, i + 1, Len(s))

\* mutant of create_student: the record is appended before the validation result is read
create_student_append_always(data, student_data, t) ==
    LET student == StudentInit(Get(student_data, "student_id", Str(<<>>)),
                               Get(student_data, "name", Str(<<>>)),
                               Get(student_data, "email", Str(<<>>)),
                               Get(student_data, "age", IntV(0)),
                               Get(student_data, "major", Str(<<>>)),
                               Get(student_data, "gpa", FloatV(0)), t)
        v == validate_all_fields(student, IdsOf(data))
    IN IF v.raised THEN Out(data, Res(FALSE, "exception", v.errors, <<>>))
       ELSE IF ~v.ok THEN Out(Append(data, to_dict(student)),
                              Res(FALSE, "validation", v.errors, <<>>))
       ELSE Out(Append(data, to_dict(student)), Res(TRUE, "success", <<>>, <<student>>))

create_student(data, student_data, t) ==
    LET student == StudentInit(Get(student_data, "student_id", Str(<<>>)),
                               Get(student_data, "name", Str(<<>>)),
                               Get(student_data, "email", Str(<<>>)),
                               Get(student_data, "age", IntV(0)),
                               Get(student_data, "major", Str(<<>>)),
                               Get(student_data, "gpa", FloatV(0)), t)
        v == validate_all_fields(student, IdsOf(data))
    IN IF v.raised THEN Out(data, Res(FALSE, "exception", v.errors, <<>>))
       ELSE IF ~v.ok THEN Out(data, Res(FALSE, "validation", v.errors, <<>>))
       ELSE Out(Append(data, to_dict(student)), Res(TRUE, "success", <<>>, <<student>>))

read_all_students(data, t) ==
    Out(data, Res(TRUE, "success", <<>>, [i \in DOMAIN data |-> from_dict(data[i], t)]))

\* mutant of read_student_by_id: the first record is returned for every stored id
read_student_by_id_first(data, student_id, t) ==
    LET i == FindIndex(data, student_id)
    IN IF Falsy(student_id)
       THEN Out(data, Res(FALSE, "request", <<"Student ID cannot be empty.">>, <<>>))
       ELSE IF i = 0
       THEN Out(data, Res(FALSE, "not_found", <<"Student with ID '" \o Text(student_id.s) \o "' not found.">>, <<>>))
       ELSE Out(data, Res(TRUE, "success", <<>>, <<from_dict(data[1], t)>>))

read_student_by_id(data, student_id, t) ==
    LET i == FindIndex(data, student_id)
    IN IF Falsy(student_id)
       THEN Out(data, Res(FALSE, "request", <<"Student ID cannot be empty.">>, <<>>))
       ELSE IF i = 0
       THEN Out(data, Res(FALSE, "not_found", <<"Student with ID '" \o Text(student_id.s) \o "' not found.">>, <<>>))
       ELSE Out(data, Res(TRUE, "success", <<>>, <<from_dict(data[i], t)>>))

\* mutant of MergeUpdate: student_id is merged like any other key
MergeUpdate_any_key(current_data, updated_data) ==
    [k \in DOMAIN current_data |->
        IF k \in DOMAIN updated_data THEN updated_data[k] ELSE current_data[k]]

\* the merge loop of update_student: every key of the stored record but student_id
MergeUpdate(current_data, updated_data) ==
    [k \in DOMAIN current_data |->
        IF k \in DOMAIN updated_data /\ k # "student_id"
        THEN updated_data[k] ELSE current_data[k]]

update_student(data, student_id, updated_data, t) ==
    LET student_index == FindIndex(data, student_id)
        current_data == MergeUpdate(data[student_index], updated_data)
        updated_student == from_dict(current_data, t)
        existing_ids == IdsOf(RemoveAt(data, student_index))
        v == validate_all_fields(updated_student, existing_ids)
        stamped == update_timestamp(updated_student, t)
    IN IF Falsy(student_id)
       THEN Out(data, Res(FALSE, "request", <<"Student ID cannot be empty.">>, <<>>))
       ELSE IF student_index = 0
       THEN Out(data, Res(FALSE, "not_found", <<"Student with ID '" \o Text(student_id.s) \o "' not found.">>, <<>>))
       ELSE IF v.raised THEN Out(data, Res(FALSE, "exception", v.errors, <<>>))
       ELSE IF ~v.ok THEN Out(data, Res(FALSE, "validation", v.errors, <<>>))
       ELSE Out([data EXCEPT ![student_index] = to_dict(stamped)],
                Res(TRUE, "success", <<>>, <<stamped>>))

\* mutant of delete_student: pop() without the index removes the last record
delete_student_pop_last(data, student_id) ==
    LET i == FindIndex(data, student_id)
    IN IF Falsy(student_id)
       THEN Out(data, Res(FALSE, "request", <<"Student ID cannot be empty.">>, <<>>))
       ELSE IF i = 0
       THEN Out(data, Res(FALSE, "not_found", <<"Student with ID '" \o Text(student_id.s) \o "' not found.">>, <<>>))
       ELSE Out(RemoveAt(data, Len(data)), Res(TRUE, "success", <<>>, <<>>))

delete_student(data, student_id) ==
    LET i == FindIndex(data, student_id)
    IN IF Falsy(student_id)
       THEN Out(data, Res(FALSE, "request", <<"Student ID cannot be empty.">>, <<>>))
       ELSE IF i = 0
       THEN Out(data, Res(FALSE, "not_found", <<"Student with ID '" \o Text(student_id.s) \o "' not found.">>, <<>>))
       ELSE Out(RemoveAt(data, i), Res(TRUE, "success", <<>>, <<>>))

\* str(value) for the values a searched field holds
StrOf(v) == v.s

SearchFields == {"name", "major", "email", "student_id"}

\* mutant of search_students: the field must equal the term instead of containing it
search_students_exact_match(data, search_term, search_field, t) ==
    LET hit(d) == Lower(StrOf(Get(d, search_field, Str(<<>>)))) = Lower(search_term.s)
        matching == SelectSeq(data, hit)
    IN IF Falsy(search_term)
       THEN Out(data, Res(FALSE, "request", <<"Search term cannot be empty.">>, <<>>))
       ELSE IF search_field \notin SearchFields
       THEN Out(data, Res(FALSE, "request",
                          <<"Invalid search field. Valid fields: name, major, email, student_id">>,
                          <<>>))
       ELSE IF ~IsStr(search_term)
       THEN Out(data, Res(FALSE, "exception",
                          <<"'" \o TypeName(search_term) \o "' object has no attribute 'lower'">>,
                          <<>>))
       ELSE Out(data, Res(TRUE, "success", <<>>,
                          [i \in DOMAIN matching |-> from_dict(matching[i], t)]))

search_students(data, search_term, search_field, t) ==
    LET hit(d) == Contains(Lower(StrOf(Get(d, search_field, Str(<<>>)))), Lower(search_term.s))
        matching == SelectSeq(data, hit)
    IN IF Falsy(search_term)
       THEN Out(data, Res(FALSE, "request", <<"Search term cannot be empty.">>, <<>>))
       ELSE IF search_field \notin SearchFields
       THEN Out(data, Res(FALSE, "request",
                          <<"Invalid search field. Valid fields: name, major, email, student_id">>,
                          <<>>))
       ELSE IF ~IsStr(search_term)
       THEN Out(data, Res(FALSE, "exception",
                          <<"'" \o TypeName(search_term) \o "' object has no attribute 'lower'">>,
                          <<>>))
       ELSE Out(data, Res(TRUE, "success", <<>>,
                          [i \in DOMAIN matching |-> from_dict(matching[i], t)]))

\* the validation loop of import_data from row i on: [raised, valid, errors]
RECURSIVE ImportLoop(_, _, _, _, _)
ImportLoop(rows, i, valid_students, errors, t) ==
    IF i > Len(rows) THEN [raised |-> FALSE, valid |-> valid_students, errors |-> errors]
    ELSE LET student == from_dict(rows[i], t)
             v == validate_all_fields(student, IdsOf(valid_students))
         IN IF v.raised THEN [raised |-> TRUE, valid |-> valid_students, errors |-> v.errors]
            ELSE IF v.ok THEN ImportLoop(rows, i + 1, Append(valid_students, student), errors, t)
            ELSE ImportLoop(rows, i + 1, valid_students,
                            Append(errors, [row |-> i, errors |-> v.errors]), t)

\* mutant of import_data: the rows that passed are stored although others failed
import_data_partial(data, rows, t) ==
    LET r == ImportLoop(rows, 1, <<>>, <<>>, t)
    IN IF r.raised THEN Out(data, Res(FALSE, "exception", r.errors, <<>>))
       ELSE IF r.errors # <<>>
       THEN Out([i \in DOMAIN r.valid |-> to_dict(r.valid[i])],
                Res(FALSE, "validation", r.errors, <<>>))
       ELSE Out([i \in DOMAIN r.valid |-> to_dict(r.valid[i])], Res(TRUE, "success", <<>>, <<>>))

\* mutant of import_data: the imported records are added to the stored ones
import_data_extend(data, rows, t) ==
    LET r == ImportLoop(rows, 1, <<>>, <<>>, t)
    IN IF r.raised THEN Out(data, Res(FALSE, "exception", r.errors, <<>>))
       ELSE IF r.errors # <<>> THEN Out(data, Res(FALSE, "validation", r.errors, <<>>))
       ELSE Out(data \o [i \in DOMAIN r.valid |-> to_dict(r.valid[i])],
                Res(TRUE, "success", <<>>, <<>>))

import_data(data, rows, t) ==
    LET r == ImportLoop(rows, 1, <<>>, <<>>, t)
    IN IF r.raised THEN Out(data, Res(FALSE, "exception", r.errors, <<>>))
       ELSE IF r.errors # <<>> THEN Out(data, Res(FALSE, "validation", r.errors, <<>>))
       ELSE Out([i \in DOMAIN r.valid |-> to_dict(r.valid[i])], Res(TRUE, "success", <<>>, <<>>))

(***************************************************************************)
(* Float arithmetic.  A Python float is an IEEE 754 binary64 number: 53     *)
(* significant bits, every operation rounded to the nearest such number, a *)
(* tie to the one whose last bit is 0.  The magnitude of a float is held   *)
(* exactly as an integer count of units of 2^-(LimbBits * FracLimbs),      *)
(* written in LimbCount limbs of LimbBits bits, the lowest limb first;     *)
(* this holds every float from 2^-67 up to 2^29, which covers the floats   *)
(* written with two decimals and the ints of the records, their sums and   *)
(* their means.                                                            *)
(***************************************************************************)
LimbBits == 15
LimbBase == 2^LimbBits
LimbCount == 10
FracLimbs == 8
MantissaBits == 53

Limbs == 1..LimbCount
BigZero == [i \in Limbs |-> 0]
\* the integer k >= 0 in units of 2^-(LimbBits * FracLimbs)
BigOfInt(k) ==
    [i \in Limbs |-> IF i = FracLimbs + 1 THEN k % LimbBase
                     ELSE IF i = FracLimbs + 2 THEN k \div LimbBase ELSE 0]

\* the limbs from i up of a + b + carry
RECURSIVE AddFrom(_, _, _, _)
AddFrom(a, b, i, carry) ==
    IF i > LimbCount THEN <<>>
    ELSE LET t == a[i] + b[i] + carry
         IN <<t % LimbBase>> \o AddFrom(a, b, i + 1, t \div LimbBase)
BigAdd(a, b) == AddFrom(a, b, 1, 0)

\* the limbs from i up of a - b - borrow
RECURSIVE SubFrom(_, _, _, _)
SubFrom(a, b, i, borrow) ==
    IF i > LimbCount THEN <<>>
    ELSE LET t == a[i] - b[i] - borrow
         IN IF t < 0 THEN <<t + LimbBase>> \o SubFrom(a, b, i + 1, 1)
            ELSE <<t>> \o SubFrom(a, b, i + 1, 0)
\* a - b for a >= b
BigSub(a, b) == SubFrom(a, b, 1, 0)

BigLess(a, b) == \E i \in Limbs : a[i] < b[i] /\ \A j \in Limbs : j > i => a[j] = b[j]

\* the limbs up to i of the quotient by n, rem being what the limbs above left
RECURSIVE DivUpTo(_, _, _, _)
DivUpTo(a, n, i, rem) ==
    IF i = 0 THEN <<>>
    ELSE LET t == rem * LimbBase + a[i]
         IN Append(DivUpTo(a, n, i - 1, t % n), t \div n)
\* a divided by the int n, 0 < n < 2^16: the quotient rounded down
BigDivSmall(a, n) == DivUpTo(a, n, LimbCount, 0)
\* the remainder of that division, from limb i up
RECURSIVE DivRem(_, _, _)
DivRem(a, n, i) ==
    IF i > LimbCount THEN 0 ELSE (DivRem(a, n, i + 1) * LimbBase + a[i]) % n

\* the limbs from i up of a * m + carry
RECURSIVE MulFrom(_, _, _, _)
MulFrom(a, m, i, carry) ==
    IF i > LimbCount THEN <<>>
    ELSE LET t == a[i] * m + carry
         IN <<t % LimbBase>> \o MulFrom(a, m, i + 1, t \div LimbBase)
\* a times the int m, 0 <= m < 2^15
BigMulSmall(a, m) == MulFrom(a, m, 1, 0)

\* the number of bits of a, and its bit j counted from the lowest, bit 1
BitLen(a) ==
    IF a = BigZero THEN 0
    ELSE LET top == CHOOSE i \in Limbs : a[i] # 0 /\ \A j \in Limbs : j > i => a[j] = 0
             width == CHOOSE k \in 1..LimbBits : 2^(k - 1) <= a[top] /\ a[top] < 2^k
         IN LimbBits * (top - 1) + width
Bit(a, j) == (a[(j - 1) \div LimbBits + 1] \div 2^((j - 1) % LimbBits)) % 2
\* the bits 1..d of a are all 0
LowBitsZero(a, d) ==
    /\ \A i \in Limbs : i <= d \div LimbBits => a[i] = 0
    /\ d % LimbBits # 0 => a[d \div LimbBits + 1] % 2^(d % LimbBits) = 0

\* the float nearest to a, or to a number just above a when inexact holds
\* (a then has more than MantissaBits bits): round to nearest, ties to even
RoundToFloat(a, inexact) ==
    LET d == BitLen(a) - MantissaBits
        q == d \div LimbBits
        p == d % LimbBits
        kept == [i \in Limbs |-> IF i <= q THEN 0
                                 ELSE IF i = q + 1 THEN (a[i] \div 2^p) * 2^p ELSE a[i]]
        unit == [i \in Limbs |-> IF i = q + 1 THEN 2^p ELSE 0]
        up == /\ Bit(a, d) = 1
              /\ inexact \/ ~LowBitsZero(a, d - 1) \/ Bit(a, d + 1) = 1
    IN IF d <= 0 THEN a ELSE BigAdd(kept, IF up THEN unit ELSE BigZero)

\* a float: its sign and its magnitude
Float(neg, mag) == [neg |-> neg /\ mag # BigZero, mag |-> mag]

\* the float of a number value: an int exactly, a float written with two
\* decimals as the float nearest to n / 100
FloatOf(v) ==
    LET k == IF v.n < 0 THEN -v.n ELSE v.n
    IN IF v.t = "int" THEN Float(v.n < 0, BigOfInt(k))
       ELSE Float(v.n < 0, RoundToFloat(BigDivSmall(BigOfInt(k), 100),
                                        DivRem(BigOfInt(k), 100, 1) # 0))

\* x + y on floats
FloatAdd(x, y) ==
    IF x.neg = y.neg THEN Float(x.neg, RoundToFloat(BigAdd(x.mag, y.mag), FALSE))
    ELSE IF BigLess(x.mag, y.mag)
    THEN Float(y.neg, RoundToFloat(BigSub(y.mag, x.mag), FALSE))
    ELSE Float(x.neg, RoundToFloat(BigSub(x.mag, y.mag), FALSE))

\* x / n for a float x and the int n = len(values)
FloatDivInt(x, n) ==
    Float(x.neg, RoundToFloat(BigDivSmall(x.mag, n), DivRem(x.mag, n, 1) # 0))

\* sum(values) over numbers without nan: from the left, each sum rounded
\* (the sum of ints is exact)
RECURSIVE FloatSum(_, _)
FloatSum(values, i) ==
    IF i = 0 THEN Float(FALSE, BigZero)
    ELSE FloatAdd(FloatSum(values, i - 1), FloatOf(values[i]))
HasNaN(values) == \E i \in DOMAIN values : values[i].t = "nan"

\* round(x, digits) in units of 10^-digits, scale being 10^digits: the
\* multiple of the unit nearest to the float's exact value, a tie (which the
\* float then holds exactly) going to the even multiple
RoundScaled(x, scale) ==
    LET scaled == BigMulSmall(x.mag, scale)
        whole == scaled[FracLimbs + 1] + LimbBase * scaled[FracLimbs + 2]
        half == LimbBase \div 2
        rest == \E i \in 1..(FracLimbs - 1) : scaled[i] # 0
        up == \/ scaled[FracLimbs] > half
              \/ scaled[FracLimbs] = half /\ (rest \/ whole % 2 = 1)
        r == IF up THEN whole + 1 ELSE whole
    IN IF x.neg THEN -r ELSE r

\* round(sum(values) / len(values), digits) as a float, digits being 1 or 2
RoundedMean(values, digits) ==
    LET mean == FloatDivInt(FloatSum(values, Len(values)), Len(values))
    IN IF HasNaN(values) THEN NaN
       ELSE IF digits = 2 THEN FloatV(RoundScaled(mean, 100))
       ELSE FloatV(10 * RoundScaled(mean, 10))

\* max(values): the first value is kept until a later one compares greater
RECURSIVE PyMax(_)
PyMax(values) ==
    IF Len(values) = 1 THEN values[1]
    ELSE LET m == PyMax(SubSeq(values, 1, Len(values) - 1))
             x == values[Len(values)]
         IN IF PyLt(m, x) THEN x ELSE m

\* min(values): the first value is kept until a later one compares less
RECURSIVE PyMin(_)
PyMin(values) ==
    IF Len(values) = 1 THEN values[1]
    ELSE LET m == PyMin(SubSeq(values, 1, Len(values) - 1))
             x == values[Len(values)]
         IN IF PyLt(x, m) THEN x ELSE m

\* the TypeError of sum(values) at its first value that is no number: the
\* running sum is an int until a float has been added
SumError(values) ==
    LET bad == {i \in DOMAIN values : ~IsNum(values[i])}
        first == CHOOSE i \in bad : \A j \in bad : i <= j
        left == IF \E j \in 1..(first - 1) : values[j].t # "int" THEN "float" ELSE "int"
    IN "unsupported operand type(s) for +: '" \o left \o "' and '"
       \o TypeName(values[first]) \o "'"

\* get_statistics: ret is empty for the empty list, else the one statistics dict
get_statistics(data) ==
    LET gpas == [i \in DOMAIN data |-> data[i].gpa]
        ages == [i \in DOMAIN data |-> data[i].age]
        majors == {data[i].major : i \in DOMAIN data}
        major_counts == [m \in majors |-> Cardinality({i \in DOMAIN data : data[i].major = m})]
    IN IF data = <<>> THEN Out(data, Res(TRUE, "empty", <<>>, <<>>))
       ELSE IF \E i \in DOMAIN gpas : ~IsNum(gpas[i])
       THEN Out(data, Res(FALSE, "exception", <<SumError(gpas)>>, <<>>))
       ELSE IF \E i \in DOMAIN ages : ~IsNum(ages[i])
       THEN Out(data, Res(FALSE, "exception", <<SumError(ages)>>, <<>>))
       ELSE Out(data, Res(TRUE, "success", <<>>,
                          <<[total_students |-> Len(data),
                             average_gpa |-> RoundedMean(gpas, 2),
                             highest_gpa |-> PyMax(gpas),
                             lowest_gpa |-> PyMin(gpas),
                             average_age |-> RoundedMean(ages, 1),
                             major_distribution |-> major_counts]>>))

\* export_data: list.copy() makes a new list of the same dictionaries
export_data(data) == Out(data, Res(TRUE, "success", <<>>, data))

(***************************************************************************)
(* The inputs the calls are made with.                                     *)
(***************************************************************************)
A01 == Str(<<"a", "0", "1">>)
B02 == Str(<<"b", "0", "2">>)
C03 == Str(<<"c", "0", "3">>)
Z09 == Str(<<"z", "0", "9">>)
AnnLee == Str(<<"A", "n", "n", " ", "L", "e", "e">>)
Mail == Str(<<"a", "@", "b", ".", "c", "o">>)
ComputerScience == Str(<<"C", "o", "m", "p", "u", "t", "e", "r", " ",
                         "S", "c", "i", "e", "n", "c", "e">>)
Physics == Str(<<"P", "h", "y", "s", "i", "c", "s">>)
TermCs == Str(<<"c", "s">>)
TermAnn == Str(<<"A", "N", "N">>)

Row(student_id, major) ==
    [student_id |-> student_id, name |-> AnnLee, email |-> Mail, age |-> IntV(20),
     major |-> major, gpa |-> FloatV(350)]

\* a row that carries its own timestamps, as an exported record does
Stamped(row, created, updated) ==
    [k \in DOMAIN row \cup {"created_at", "updated_at"} |->
        IF k = "created_at" THEN TS(created)
        ELSE IF k = "updated_at" THEN TS(updated) ELSE row[k]]

CreateInputs ==
    { Row(A01, ComputerScience),
      Row(B02, Physics),
      [Row(A01, Physics) EXCEPT !.name = Str(<<"A", "1">>)],
      [Row(B02, Physics) EXCEPT !.name = IntV(7)],
      [Row(Str(<<"x", "1">>), Physics) EXCEPT !.email = Str(<<"a", "b">>),
                                              !.age = IntV(15), !.gpa = FloatV(450)],
      [student_id |-> B02] }

IdInputs == {A01, B02, Str(<<>>)}

UpdateDicts ==
    { <<>>,
      [major |-> Physics],
      [student_id |-> Z09],
      [created_at |-> TS(1), updated_at |-> TS(0)],
      [name |-> Str(<<"A", "1">>)],
      [major |-> IntV(7)],
      [gpa |-> NaN, major |-> Physics] }

\* the update calls: every dictionary on the first id, the empty one on the others
UpdateInputs ==
    {<<A01, d>> : d \in UpdateDicts} \cup {<<B02, <<>> >>, <<Str(<<>>), <<>> >>}

SearchInputs ==
    { [term |-> TermCs, field |-> "major"],
      [term |-> TermAnn, field |-> "name"],
      [term |-> Str(<<"B", "0">>), field |-> "student_id"],
      [term |-> TermCs, field |-> "age"],
      [term |-> IntV(7), field |-> "name"] }

RowA == Row(A01, Physics)
RowB == Stamped(Row(B02, ComputerScience), 1, 0)
RowBadName == [Row(B02, Physics) EXCEPT !.name = Str(<<"A", "1">>)]
RowBadType == [Row(A01, Physics) EXCEPT !.email = IntV(7)]

ImportInputs ==
    { <<>>, <<RowA>>, <<RowB, RowA>>, <<RowA, RowA>>, <<RowA, RowBadName, RowB>>,
      <<RowBadName>>, <<RowB, RowBadType>> }

(***************************************************************************)
(* The state machine.  last records the latest call: its operation, its    *)
(* id argument, its other argument, whether it repeats the previous call   *)
(* (same operation and id, the previous one successful), whether it is a   *)
(* read of the id that the previous call created, the length of the list   *)
(* before the call, and the returned tuple.                                *)
(***************************************************************************)
NoArg == [none |-> TRUE]

Call(op, id, arg, res) ==
    [op |-> op, id |-> id, arg |-> arg,
     repeat |-> (last.op = op /\ last.id = id /\ last.ok),
     after_create |-> (op = "read" /\ last.op = "create" /\ last.id = id /\ last.ok),
     size_before |-> Len(students_data),
     ok |-> res.ok, kind |-> res.kind, errors |-> res.errors, ret |-> res.ret]

Init ==
    /\ students_data = <<>>
    /\ now = 0
    /\ last = [op |-> "init", id |-> NoneV, arg |-> NoArg, repeat |-> FALSE,
               after_create |-> FALSE,
               size_before |-> 0,
               ok |-> TRUE, kind |-> "success", errors |-> <<>>, ret |-> <<>>]

\* the clock advances between calls
Tick ==
    /\ now < MaxTime
    /\ now' = now + 1
    /\ last' = [op |-> "tick", id |-> NoneV, arg |-> NoArg, repeat |-> FALSE,
                after_create |-> FALSE,
                size_before |-> Len(students_data),
                ok |-> TRUE, kind |-> "success", errors |-> <<>>, ret |-> <<>>]
    /\ UNCHANGED students_data

Create(d) ==
    LET out == create_student(students_data, d, now)
    IN /\ students_data' = out.data
       /\ last' = Call("create", Get(d, "student_id", Str(<<>>)), d, out.res)
       /\ UNCHANGED now

ReadAll ==
    LET out == read_all_students(students_data, now)
    IN /\ students_data' = out.data
       /\ last' = Call("read_all", NoneV, NoArg, out.res)
       /\ UNCHANGED now

ReadById(id) ==
    LET out == read_student_by_id(students_data, id, now)
    IN /\ students_data' = out.data
       /\ last' = Call("read", id, NoArg, out.res)
       /\ UNCHANGED now

Update(id, d) ==
    LET out == update_student(students_data, id, d, now)
    IN /\ students_data' = out.data
       /\ last' = Call("update", id, d, out.res)
       /\ UNCHANGED now

Delete(id) ==
    LET out == delete_student(students_data, id)
    IN /\ students_data' = out.data
       /\ last' = Call("delete", id, NoArg, out.res)
       /\ UNCHANGED now

Search(q) ==
    LET out == search_students(students_data, q.term, q.field, now)
    IN /\ students_data' = out.data
       /\ last' = Call("search", NoneV, q, out.res)
       /\ UNCHANGED now

\* the per-row messages of a failed import are not kept in last
Import(rows) ==
    LET out == import_data(students_data, rows, now)
    IN /\ students_data' = out.data
       /\ last' = Call("import", NoneV, rows, [out.res EXCEPT !.errors = <<>>])
       /\ UNCHANGED now

Statistics ==
    LET out == get_statistics(students_data)
    IN /\ students_data' = out.data
       /\ last' = Call("statistics", NoneV, NoArg, out.res)
       /\ UNCHANGED now

Export ==
    LET out == export_data(students_data)
    IN /\ students_data' = out.data
       /\ last' = Call("export", NoneV, NoArg, out.res)
       /\ UNCHANGED now

Next ==
    \/ Tick
    \/ \E d \in CreateInputs : Create(d)
    \/ ReadAll
    \/ \E id \in IdInputs : ReadById(id)
    \/ \E c \in UpdateInputs : Update(c[1], c[2])
    \/ \E id \in IdInputs : Delete(id)
    \/ \E q \in SearchInputs : Search(q)
    \/ \E rows \in ImportInputs : Import(rows)
    \/ Statistics
    \/ Export

Spec == Init /\ [][Next]_vars

(***************************************************************************)
(* A second specification for what depends on the order of the list: three *)
(* ids, and only the calls that add, change and remove records.            *)
(***************************************************************************)
OrderRows == {Row(A01, ComputerScience), Row(B02, Physics), Row(C03, Physics)}
OrderIds == {A01, B02, C03}
OrderDicts == {[major |-> ComputerScience], [student_id |-> Z09, major |-> Physics]}

NextOrder ==
    \/ \E d \in OrderRows : Create(d)
    \/ \E id \in OrderIds, d \in OrderDicts : Update(id, d)
    \/ \E id \in OrderIds : Delete(id)

SpecOrder == Init /\ [][NextOrder]_vars

(***************************************************************************)
(* A third specification for the list that export_data returns.  The       *)
(* caller holds it in last.ret right after the call; list.copy() is        *)
(* shallow, so its element i is the very dictionary students_data[i], and  *)
(* an assignment to a key of it is an assignment to the stored record.     *)
(***************************************************************************)
Zoe == Str(<<"Z", "o", "e">>)

\* exported[i][k] = v by the caller
CallerSetsField(i, k, v) ==
    /\ last.op = "export"
    /\ i \in DOMAIN last.ret
    /\ students_data' = [students_data EXCEPT ![i][k] = v]
    /\ last' = [last EXCEPT !.op = "caller_set", !.arg = [index |-> i, key |-> k, value |-> v],
                            !.size_before = Len(students_data),
                            !.ret = [last.ret EXCEPT ![i][k] = v]]
    /\ UNCHANGED now

\* exported.pop(i) by the caller: the returned list is a list of its own
CallerPops(i) ==
    /\ last.op = "export"
    /\ i \in DOMAIN last.ret
    /\ last' = [last EXCEPT !.op = "caller_pop", !.arg = [index |-> i],
                            !.size_before = Len(students_data),
                            !.ret = RemoveAt(last.ret, i)]
    /\ UNCHANGED <<students_data, now>>

NextExport ==
    \/ \E d \in OrderRows : Create(d)
    \/ Export
    \/ \E i \in 1..Cardinality(OrderRows) : CallerSetsField(i, "name", Zoe)
    \/ \E i \in 1..Cardinality(OrderRows) : CallerPops(i)

SpecExport == Init /\ [][NextExport]_vars

(***************************************************************************)
(* A fourth specification for the validators as functions: the initial     *)
(* state names one validator and one input value, the action applies the   *)
(* validator and records the outcome in last (kind "exception" when the    *)
(* validator raises).                                                      *)
(***************************************************************************)
SeqsUpTo(S, n) == UNION {[1..k -> S] : k \in 0..n}

NameAlphabet == {"A", "b", " ", "\t", "\n", "-", "'", "1", "é"}
EmailAlphabet == {"a", "_", "@", "."}
WrongTyped == {NoneV, IntV(0), IntV(7), FloatV(350), NaN}

IdValues ==
    {A01, Str(<<>>), Str(<<"a", "1">>), Str(<<"a", "-", "1">>), Str(<<"é", "0", "1">>),
     Str(<<"a", " ", "1">>)} \cup WrongTyped
NameValues == {Str(s) : s \in SeqsUpTo(NameAlphabet, MaxNameLen)} \cup WrongTyped
EmailValues ==
    {Str(s) : s \in SeqsUpTo(EmailAlphabet, MaxEmailLen)}
    \cup {Str(<<"é", "@", "a", ".", "a", "a">>), Str(<<"a", "@", "é", ".", "a", "a">>),
          Str(<<"a", "@", "a", ".", "a", "a", "\n">>), Str(<<"a", "@", "a", ".", "a", "1">>)}
    \cup WrongTyped
AgeValues ==
    {IntV(15), IntV(16), IntV(100), IntV(101), IntV(0), FloatV(2000), NaN, NoneV,
     Str(<<"2", "0">>)}
MajorValues ==
    {Physics, Str(<<>>), Str(<<"A">>), Str(<<" ", "A", " ">>), Str(<<" ", " ">>),
     Str(<<"1", "!">>)} \cup WrongTyped
GpaValues ==
    {FloatV(0), FloatV(400), FloatV(401), FloatV(-1), FloatV(350), IntV(4), IntV(5),
     IntV(0), NaN, NoneV, Str(<<"3", ".", "5">>)}

\* the Student objects validate_all_fields is applied to, and the id lists
AllStudents ==
    {StudentInit(i, n, e, a, m, g, 0) :
        i \in {A01, Str(<<"a", "1">>), IntV(7)},
        n \in {AnnLee, Str(<<"A", "1">>), IntV(7)},
        e \in {Mail, Str(<<"a", "b">>)},
        a \in {IntV(20), IntV(15)},
        m \in {Physics, Str(<<"A">>)},
        g \in {FloatV(350), FloatV(450)}}
ExistingIdLists == {<<>>, <<A01>>, <<B02, A01>>}

\* a validator and the value it is about to be applied to
Pending(validator, value) ==
    [op |-> "pending", id |-> NoneV, arg |-> [validator |-> validator, value |-> value],
     repeat |-> FALSE, after_create |-> FALSE, size_before |-> 0,
     ok |-> TRUE, kind |-> "success", errors |-> <<>>, ret |-> <<>>]

InitValidators ==
    /\ students_data = <<>>
    /\ now = 0
    /\ last \in {Pending("validate_student_id", v) : v \in IdValues}
               \cup {Pending("validate_name", v) : v \in NameValues}
               \cup {Pending("validate_email", v) : v \in EmailValues}
               \cup {Pending("validate_age", v) : v \in AgeValues}
               \cup {Pending("validate_major", v) : v \in MajorValues}
               \cup {Pending("validate_gpa", v) : v \in GpaValues}
               \cup {Pending("validate_all_fields", [student |-> st, existing_ids |-> ids]) :
                        st \in AllStudents, ids \in ExistingIdLists}

IsPending(validator) == last.op = "pending" /\ last.arg.validator = validator

Validated(op, arg, r) ==
    [op |-> op, id |-> NoneV, arg |-> arg, repeat |-> FALSE, after_create |-> FALSE,
     size_before |-> 0,
     ok |-> r.ok,
     kind |-> IF r.raised THEN "exception" ELSE IF r.ok THEN "success" ELSE "validation",
     errors |-> IF r.ok THEN <<>> ELSE <<r.msg>>,
     ret |-> <<>>]

ValidateId ==
    /\ IsPending("validate_student_id")
    /\ last' = Validated("validate_student_id", last.arg.value,
                         validate_student_id(last.arg.value))
    /\ UNCHANGED <<students_data, now>>

ValidateName ==
    /\ IsPending("validate_name")
    /\ last' = Validated("validate_name", last.arg.value, validate_name(last.arg.value))
    /\ UNCHANGED <<students_data, now>>

ValidateEmail ==
    /\ IsPending("validate_email")
    /\ last' = Validated("validate_email", last.arg.value, validate_email(last.arg.value))
    /\ UNCHANGED <<students_data, now>>

ValidateAge ==
    /\ IsPending("validate_age")
    /\ last' = Validated("validate_age", last.arg.value, validate_age(last.arg.value))
    /\ UNCHANGED <<students_data, now>>

ValidateMajor ==
    /\ IsPending("validate_major")
    /\ last' = Validated("validate_major", last.arg.value, validate_major(last.arg.value))
    /\ UNCHANGED <<students_data, now>>

ValidateGpa ==
    /\ IsPending("validate_gpa")
    /\ last' = Validated("validate_gpa", last.arg.value, validate_gpa(last.arg.value))
    /\ UNCHANGED <<students_data, now>>

ValidateAll ==
    /\ IsPending("validate_all_fields")
    /\ LET v == validate_all_fields(last.arg.value.student, last.arg.value.existing_ids)
       IN last' = [Validated("validate_all_fields", last.arg.value,
                             [raised |-> v.raised, ok |-> v.ok, msg |-> ""])
                      EXCEPT !.errors = v.errors]
    /\ UNCHANGED <<students_data, now>>

NextValidators ==
    \/ ValidateId
    \/ ValidateName
    \/ ValidateEmail
    \/ ValidateAge
    \/ ValidateMajor
    \/ ValidateGpa
    \/ ValidateAll

SpecValidators == InitValidators /\ [][NextValidators]_vars

(***************************************************************************)
(* The claims.                                                             *)
(***************************************************************************)
HasId(data, id) == \E i \in DOMAIN data : PyEq(data[i].student_id, id)

\* C1: in every reachable state no two records of the collection have the
\* same id.
C1_UniqueIds ==
    \A i, j \in DOMAIN students_data :
        i # j => ~PyEq(students_data[i].student_id, students_data[j].student_id)

\* two records are stored and a create or an import with a repeated id was refused
C1_Witness ==
    /\ Len(students_data) = 2
    /\ \/ last.op = "create" /\ last.errors = <<"Student ID already exists">>
       \/ last.op = "import" /\ ~last.ok /\ last.arg = <<RowA, RowA>>

\* C2: a call that returns a failure leaves the stored collection as it was,
\* record for record and in the same order.
C2_FailureLeavesCollection ==
    [][~last'.ok => students_data' = students_data]_vars

\* an update of a stored record was refused by validation
C2_Witness ==
    /\ last.op = "update" /\ ~last.ok /\ last.kind = "validation"
    /\ HasId(students_data, last.id)

\* C3 (as stated): a create whose id is already stored returns a validation
\* error and leaves the collection unchanged, whatever its other fields are.
C3_DuplicateCreateIsValidationError ==
    [][(last'.op = "create" /\ HasId(students_data, last'.id))
        => (~last'.ok /\ last'.kind = "validation" /\ students_data' = students_data)]_vars

\* the six field validators accept the row and its id repeats no earlier row
RowFieldsOk(row, t) ==
    LET v == validate_all_fields(from_dict(row, t), <<>>) IN ~v.raised /\ v.ok
BatchValid(rows, t) ==
    /\ \A i \in DOMAIN rows : RowFieldsOk(rows[i], t)
    /\ \A i, j \in DOMAIN rows :
          i < j => ~PyEq(Get(rows[i], "student_id", Str(<<>>)),
                         Get(rows[j], "student_id", Str(<<>>)))

\* C4: an import with a row that fails validation (a repeated id included)
\* returns a failure and leaves the collection exactly as it was.
C4_FailedImportLeavesCollection ==
    [][(last'.op = "import" /\ ~BatchValid(last'.arg, now))
        => (~last'.ok /\ students_data' = students_data)]_vars

\* an import with one invalid row among valid ones was refused on a non-empty list
C4_Witness ==
    /\ last.op = "import" /\ ~last.ok
    /\ last.arg = <<RowA, RowBadName, RowB>>
    /\ students_data # <<>>

\* the record a valid row is stored as: its fields, its timestamps or the clock's
StoredForm(row, t) ==
    [k \in Keys |-> IF k \in DOMAIN row THEN row[k] ELSE TS(t)]

\* C5: an import whose rows are all valid succeeds, and the collection is
\* then exactly the imported rows in their order, whatever was stored before.
C5_ImportReplaces ==
    [][(last'.op = "import" /\ BatchValid(last'.arg, now))
        => /\ last'.ok
           /\ Len(students_data') = Len(last'.arg)
           /\ \A i \in DOMAIN last'.arg :
                 students_data'[i] = StoredForm(last'.arg[i], now)]_vars

\* an import of one row succeeded on a list of two records
C5_Witness ==
    /\ last.op = "import" /\ last.ok /\ last.size_before = 2
    /\ last.arg = <<RowA>> /\ Len(students_data) = 1

\* an import of no rows emptied a list of two records
C5_WitnessEmpty ==
    /\ last.op = "import" /\ last.ok /\ last.size_before = 2
    /\ last.arg = <<>> /\ students_data = <<>>

\* C6 (as stated): no call other than a delete or an import changes the
\* created_at of a stored record.
C6_CreatedAtNeverChanges ==
    [][last'.op # "import"
        => \A i \in DOMAIN students_data : \A j \in DOMAIN students_data' :
              PyEq(students_data[i].student_id, students_data'[j].student_id)
                 => students_data'[j].created_at = students_data[i].created_at]_vars

\* C7 (as stated): every stored record has updated_at >= created_at.
C7_UpdatedNotBeforeCreated ==
    \A i \in DOMAIN students_data :
        students_data[i].updated_at.n >= students_data[i].created_at.n

\* C8: a successful update changes only the record with the given id; the
\* record keeps its position and its id, also when the data name another id,
\* and every other record is unchanged.
C8_UpdateFrame ==
    [][(last'.op = "update" /\ last'.ok)
        => /\ Len(students_data') = Len(students_data)
           /\ \E i \in DOMAIN students_data :
                 /\ students_data[i].student_id = last'.id
                 /\ students_data'[i].student_id = last'.id
                 /\ \A j \in DOMAIN students_data :
                       j # i => students_data'[j] = students_data[j]]_vars

\* the middle one of three records was updated with data that name another id
C8_Witness ==
    /\ last.op = "update" /\ last.ok
    /\ "student_id" \in DOMAIN last.arg /\ last.arg.student_id # last.id
    /\ Len(students_data) = 3
    /\ students_data[2].student_id = last.id
    /\ students_data[2].major = Physics

\* C9: the delete of a stored id succeeds and removes exactly that record,
\* the others keeping their order; a second delete of the same id right after
\* it returns not-found.
C9_DeleteTwice ==
    [][/\ (last'.op = "delete" /\ HasId(students_data, last'.id))
          => /\ last'.ok
             /\ Len(students_data') = Len(students_data) - 1
             /\ \E i \in DOMAIN students_data :
                   /\ students_data[i].student_id = last'.id
                   /\ \A j \in 1..(i - 1) : students_data'[j] = students_data[j]
                   /\ \A j \in i..(Len(students_data) - 1) :
                         students_data'[j] = students_data[j + 1]
       /\ (last'.op = "delete" /\ last'.repeat)
          => (~last'.ok /\ last'.kind = "not_found" /\ students_data' = students_data)]_vars

\* one of three records was deleted, and deleting it again was not-found
C9_Witness ==
    /\ last.op = "delete" /\ last.repeat /\ last.kind = "not_found"
    /\ Len(students_data) = 2

\* the collection holds one Computer Science and one Physics record and the
\* latest call was search("cs", "major")
C10_Case ==
    /\ last.op = "search"
    /\ last.arg = [term |-> TermCs, field |-> "major"]
    /\ Len(students_data) = 2
    /\ {students_data[1].major, students_data[2].major} = {ComputerScience, Physics}

\* C10 (as stated): search("cs", "major") over a Computer Science and a
\* Physics record returns exactly the Computer Science record.
C10_SearchReturnsComputerScience ==
    C10_Case => /\ Len(last.ret) = 1
                /\ last.ret[1].major = ComputerScience

\* C10 (amended): search("cs", "major") over a Computer Science and a Physics
\* record returns exactly the Physics record: "cs" occurs in "physics" and
\* not in "computer science".
C10_SearchReturnsPhysics ==
    C10_Case => /\ Len(last.ret) = 1
                /\ last.ret[1].major = Physics
                /\ last.ret[1] \in {students_data[1], students_data[2]}

C10_Witness == C10_Case /\ last.ok

\* two characters are the same letter in either case, or the same character
SameIgnoringCase(a, b) ==
    \/ a = b
    \/ \E i \in DOMAIN UpperChars : {a, b} = {UpperChars[i], LowerChars[i]}

\* the term occurs in the text at some offset, letter case ignored
OccursIn(term, text) ==
    \E k \in 0..(Len(text) - Len(term)) :
        \A j \in 1..Len(term) : SameIgnoringCase(text[k + j], term[j])

\* the latest call was a search with a non-empty str term on a searchable field
C11_Case ==
    /\ last.op = "search"
    /\ last.arg.term.t = "str" /\ last.arg.term.s # <<>>
    /\ last.arg.field \in {"name", "major", "email", "student_id"}

\* C11: a search with a non-empty term on name, major, email or id succeeds
\* and returns exactly the stored records whose field contains the term,
\* letter case ignored, in the order of the list; with no match it succeeds
\* with an empty list.
C11_SearchReturnsMatches ==
    C11_Case =>
        LET hits == {i \in DOMAIN students_data :
                        OccursIn(last.arg.term.s, students_data[i][last.arg.field].s)}
        IN /\ last.ok
           /\ Len(last.ret) = Cardinality(hits)
           /\ \A i \in hits :
                 last.ret[Cardinality({j \in hits : j <= i})] = students_data[i]

\* search("B0", "student_id") returned the second of two records and not the first
C11_Witness ==
    /\ C11_Case /\ last.ok
    /\ last.arg.term = Str(<<"B", "0">>)
    /\ Len(students_data) = 2
    /\ last.ret = <<students_data[2]>>

\* a search over a non-empty list matched nothing and succeeded with an empty list
C11_WitnessNoMatch ==
    /\ C11_Case /\ last.ok
    /\ students_data # <<>>
    /\ last.ret = <<>>

IsFinite(v) == v.t \in {"int", "float"}
\* the sum of number values in hundredths, as a number and not as a float
SumHundredths(values) ==
    LET RECURSIVE Sum(_)
        Sum(i) == IF i = 0 THEN 0 ELSE Sum(i - 1) + NumVal(values[i])
    IN Sum(Len(values))
Abs(x) == IF x < 0 THEN -x ELSE x

\* C12 (as stated): statistics succeeds; on the empty collection it has no
\* payload; otherwise the total is the number of records, the highest and
\* the lowest gpa are the maximum and the minimum of the stored gpas, and the
\* average gpa is their mean rounded to 2 decimals.
C12_StatisticsOfStoredGpas ==
    last.op = "statistics" =>
        /\ last.ok
        /\ students_data = <<>> => last.ret = <<>>
        /\ students_data # <<>> =>
              LET stats == last.ret[1]
                  gpas == [i \in DOMAIN students_data |-> students_data[i].gpa]
                  n == Len(gpas)
              IN /\ Len(last.ret) = 1
                 /\ stats.total_students = n
                 /\ IsFinite(stats.highest_gpa) /\ IsFinite(stats.lowest_gpa)
                 /\ \E i \in DOMAIN gpas : gpas[i] = stats.highest_gpa
                 /\ \E i \in DOMAIN gpas : gpas[i] = stats.lowest_gpa
                 /\ \A i \in DOMAIN gpas :
                       /\ IsFinite(gpas[i])
                       /\ NumVal(gpas[i]) <= NumVal(stats.highest_gpa)
                       /\ NumVal(gpas[i]) >= NumVal(stats.lowest_gpa)
                 /\ IsFinite(stats.average_gpa)
                 /\ 2 * Abs(n * NumVal(stats.average_gpa) - SumHundredths(gpas)) <= n

\* C13 (as stated): no change the caller makes to the list export_data
\* returned, or to a record in it, changes the stored collection.
C13_ExportIsDefensiveCopy ==
    [][last'.op \in {"caller_set", "caller_pop"} => students_data' = students_data]_vars

FieldKeys == {"student_id", "name", "email", "age", "major", "gpa"}

\* C14: a create whose fields pass validation and whose id is not stored
\* succeeds, and a read of that id right after it returns a record with the
\* id, name, email, age, major and gpa that were given and the created_at of
\* the created record.
C14_CreateThenRead ==
    [][/\ (last'.op = "create" /\ RowFieldsOk(last'.arg, now)
                               /\ ~HasId(students_data, last'.id))
          => (last'.ok /\ last'.kind = "success")
       /\ (last.op = "create" /\ last.ok /\ last'.op = "read" /\ last'.id = last.id)
          => /\ last'.ok
             /\ Len(last'.ret) = 1
             /\ \A k \in FieldKeys : last'.ret[1][k] = last.arg[k]
             /\ last'.ret[1].created_at = last.ret[1].created_at]_vars

\* the second record of the list was read right after its creation at a later
\* clock time than the first one's
C14_Witness ==
    /\ last.op = "read" /\ last.after_create /\ last.ok
    /\ Len(students_data) = 2
    /\ last.ret[1].student_id = students_data[2].student_id
    /\ last.ret[1].created_at.n > students_data[1].created_at.n

\* C15: an update with the empty dictionary on a stored id succeeds and
\* leaves every field of the record as it was, except updated_at, which
\* becomes the time of the call; the other records are unchanged.
C15_EmptyUpdateRestamps ==
    [][(last'.op = "update" /\ DOMAIN last'.arg = {} /\ HasId(students_data, last'.id))
        => /\ last'.ok
           /\ Len(students_data') = Len(students_data)
           /\ \A i \in DOMAIN students_data :
                 students_data'[i] =
                    IF students_data[i].student_id = last'.id
                    THEN [students_data[i] EXCEPT !.updated_at = TS(now)]
                    ELSE students_data[i]]_vars

\* an empty update succeeded on a record at a later clock time than its creation
C15_Witness ==
    /\ last.op = "update" /\ last.ok /\ DOMAIN last.arg = {}
    /\ \E i \in DOMAIN students_data :
          /\ students_data[i].student_id = last.id
          /\ students_data[i].updated_at = TS(now)
          /\ students_data[i].created_at.n < now

ValidatorOps ==
    {"validate_student_id", "validate_name", "validate_email", "validate_age",
     "validate_major", "validate_gpa"}

\* C16 (as stated): each field validator returns a pair for every input
\* value, values of the wrong type included, and never raises.
C16_ValidatorsNeverRaise ==
    last.op \in ValidatorOps => last.kind # "exception"

\* the messages validate_all_fields is to return for a Student, field by
\* field in the order id, name, email, age, major, gpa: the message of each
\* validator that does not accept its value, and for an id that passes its
\* format check and is among the existing ids the duplicate message
ExpectedErrors(student, existing_ids) ==
    LET checks == <<validate_student_id(student.student_id), validate_name(student.name),
                    validate_email(student.email), validate_age(student.age),
                    validate_major(student.major), validate_gpa(student.gpa)>>
        duplicate == /\ checks[1].ok
                     /\ \E i \in DOMAIN existing_ids : existing_ids[i] = student.student_id
        failing == {i \in 1..6 : ~checks[i].ok \/ (i = 1 /\ duplicate)}
        message(i) == IF i = 1 /\ duplicate THEN "Student ID already exists" ELSE checks[i].msg
        nth(k) == CHOOSE i \in failing : Cardinality({j \in failing : j <= i}) = k
    IN [k \in 1..Cardinality(failing) |-> message(nth(k))]

\* C17 (as stated): validate_all_fields returns one message for every failing
\* field, in the order id, name, email, age, major, gpa, without stopping at
\* the first failure; ok holds exactly when there is no message; the
\* duplicate message is given only for an id that passes the format check and
\* is among the existing ids.
C17_ValidateReportsEveryField ==
    last.op = "validate_all_fields" =>
        /\ last.kind # "exception"
        /\ last.errors = ExpectedErrors(last.arg.student, last.arg.existing_ids)
        /\ last.ok <=> (last.errors = <<>>)

\* C18 (as stated): validate_name accepts a str exactly when, with the
\* surrounding whitespace removed, it has at least 2 characters and each of
\* them is an ASCII letter or the space character.
C18_NameLettersAndSpaces ==
    (last.op = "validate_name" /\ last.arg.t = "str") =>
        (last.ok <=> LET trimmed == Strip(last.arg.s)
                     IN /\ Len(trimmed) >= 2
                        /\ \A i \in DOMAIN trimmed : trimmed[i] \in AsciiLetters \cup {" "})

\* the states an automaton for  local+ "@" domain+ "." letter letter+  can be
\* in after the first i characters of s: 0 at the start, 1 within the local
\* part, 2 after the "@", 3 within the domain, 4 after a "." of the domain
\* read as the last one, 5 after one letter, 6 after two or more letters
RECURSIVE PatternStates(_, _, _, _)
PatternStates(s, i, local, domain) ==
    IF i = 0 THEN {0}
    ELSE LET before == PatternStates(s, i - 1, local, domain)
             c == s[i]
         IN {q \in 1..6 :
                \/ q = 1 /\ c \in local /\ before \cap {0, 1} # {}
                \/ q = 2 /\ c = "@" /\ 1 \in before
                \/ q = 3 /\ c \in domain /\ before \cap {2, 3} # {}
                \/ q = 4 /\ c = "." /\ 3 \in before
                \/ q = 5 /\ c \in AsciiLetters /\ 4 \in before
                \/ q = 6 /\ c \in AsciiLetters /\ before \cap {5, 6} # {}}

\* s matches the pattern; `$` also matches before a newline that ends s
MatchesPattern(s, local, domain) ==
    \/ 6 \in PatternStates(s, Len(s), local, domain)
    \/ /\ s # <<>> /\ s[Len(s)] = "\n"
       /\ 6 \in PatternStates(s, Len(s) - 1, local, domain)

\* the characters \w matches
WordChars == AsciiLetters \cup DigitChars \cup OtherLetters \cup {"_"}

C19_Case == last.op = "validate_email"

\* C19 (as stated): validate_email accepts exactly the non-empty strings that
\* match ^[\w.%+-]+@[\w.-]+\.[A-Za-z]{2,}$, so an underscore is accepted in
\* the domain as it is in the local part.
C19_EmailMatchesWordPattern ==
    C19_Case =>
        (last.ok <=> /\ last.arg.t = "str"
                     /\ MatchesPattern(last.arg.s, WordChars \cup {".", "%", "+", "-"},
                                       WordChars \cup {".", "-"}))

\* C19 (amended): validate_email accepts exactly the non-empty strings that
\* match ^[a-zA-Z0-9._%+-]+@[a-zA-Z0-9.-]+\.[a-zA-Z]{2,}$: an underscore is
\* accepted in the local part and rejected in the domain.
C19_EmailMatchesAsciiPattern ==
    C19_Case =>
        (last.ok <=> /\ last.arg.t = "str"
                     /\ MatchesPattern(last.arg.s,
                                       AsciiLetters \cup DigitChars \cup {".", "_", "%", "+", "-"},
                                       AsciiLetters \cup DigitChars \cup {".", "-"}))

\* the email "a@_.aa", with an underscore as its domain, was rejected
C19_Witness ==
    /\ C19_Case /\ ~last.ok
    /\ last.arg = Str(<<"a", "@", "_", ".", "a", "a">>)

\* the email "_@a.aa", with an underscore as its local part, was accepted
C19_WitnessLocal ==
    /\ C19_Case /\ last.ok
    /\ last.arg = Str(<<"_", "@", "a", ".", "a", "a">>)

\* C20 (as stated): every stored record passes the six field validators: its
\* id is alphanumeric with at least 3 characters, its name, email and major
\* are valid, its age is an integer in 16..100 and its gpa is in 0.0..4.0.
C20_StoredRecordsAreValid ==
    \A i \in DOMAIN students_data :
        LET r == students_data[i]
        IN /\ r.student_id.t = "str" /\ Len(r.student_id.s) >= 3 /\ IsAlnum(r.student_id.s)
           /\ validate_name(r.name).ok
           /\ validate_email(r.email).ok
           /\ r.age.t = "int" /\ r.age.n >= 16 /\ r.age.n <= 100
           /\ validate_major(r.major).ok
           /\ validate_gpa(r.gpa).ok
           /\ IsFinite(r.gpa) /\ NumVal(r.gpa) >= 0 /\ NumVal(r.gpa) <= 400

====
